---- MODULE Spec2Model ----
(***************************************************************************)
(* Session-multiplexing gateway of helixbox-mcp (src/src/index.ts, the     *)
(* HTTP entry point at lines 920-1745).                                     *)
(*                                                                         *)
(* The gateway keeps one StreamableHTTPServerTransport per session id in    *)
(* the plain object `transports` and routes POST / GET / DELETE requests on *)
(* /mcp by the value of the mcp-session-id header.  Node runs the handlers  *)
(* on one event loop: a handler runs without interruption up to its next    *)
(* `await`.  The variable `running` holds the handler that is inside such   *)
(* a synchronous section, so that its sub-steps are visible in the model    *)
(* but no other handler interleaves with them.                              *)
(***************************************************************************)
EXTENDS Integers, Sequences, FiniteSets, TLC

\* ------------------------------------------------------------------ bounds
\* Number of transports (new-session POSTs) a run may construct.
MaxTransports == 2
\* Number of times the environment may fire one transport's close callback.
MaxCloses == 2

\* ------------------------------------------------------------- value space
\* Session ids are produced by randomUUID(); the n-th id issued is UUID(n).
UUID(n) == "uuid-" \o ToString(n)
UUIDs == { UUID(n) : n \in 1..MaxTransports }

\* Names every object literal inherits from Object.prototype.
ProtoProps == {"constructor", "__proto__"}

\* Values an mcp-session-id header may carry: every id, the empty string,
\* inherited property names, and a string that is never issued as an id
\* (a prefix of every id).
HeaderValues == UUIDs \cup ProtoProps \cup {"", "uuid-"}

\* req.headers['mcp-session-id']: <<>> when the header is absent
\* (undefined), <<v>> when it is present with value v.
Headers == {<<>>} \cup { <<v>> : v \in HeaderValues }

\* req.body after express.json(): a JSON-RPC message, abstracted to its
\* method and to whether its params satisfy the initialize schema.
Bodies == { [method |-> "initialize", params |-> "ok"],
            [method |-> "initialize", params |-> "missing"],
            [method |-> "tools/call", params |-> "ok"] }

\* The session header of a request that reached the new-session branch, as
\* the handler sees it: falsy (absent or empty), written as absent.
NoSessionId == <<>>

\* The one body that isInitializeRequest accepts.
InitBody == [method |-> "initialize", params |-> "ok"]

\* JavaScript values the expression transports[sessionId] can yield.
Undefined == [kind |-> "undefined", ref |-> 0, name |-> ""]
TransportRef(t) == [kind |-> "transport", ref |-> t, name |-> ""]
ProtoValue(p) == [kind |-> "inherited", ref |-> 0, name |-> p]

\* Truthiness of a looked-up value: only undefined is falsy here.
Truthy(v) == v.kind # "undefined"

\* Truthiness of the header: absent and the empty string are falsy.
HasSessionId(hdr) == Len(hdr) = 1 /\ hdr[1] # ""

\* isInitializeRequest(req.body): the body parses as an initialize request.
isInitializeRequest(body) == body.method = "initialize" /\ body.params = "ok"

\* ----------------------------------------------------------- response data
NoBody == [kind |-> "none", code |-> 0, message |-> "", id |-> ""]

\* res.status(400).json({jsonrpc, error: {code, message}, id: null})
PostRejectBody ==
    [kind |-> "json", code |-> -32000,
     message |-> "Bad Request: No valid session ID provided", id |-> "null"]

\* res.status(400).send('Invalid or missing session ID')
SessionRejectBody ==
    [kind |-> "text", code |-> 0,
     message |-> "Invalid or missing session ID", id |-> ""]

VARIABLES
    transports,   \* the registry object: own keys (session ids) -> transport
    tobj,         \* the transport objects constructed so far, in order
    issued,       \* number of ids randomUUID() has produced
    running,      \* transport whose POST handler is in a synchronous section, 0 if none
    last,         \* the most recent request event seen at the HTTP boundary
    cache,        \* _cache (NodeCache): key -> entry
    now,          \* Date.now(), in seconds
    ticks,        \* number of clock advances so far
    inv,          \* the tool invocations started so far, in order of their start
    fin,          \* the tool invocation that returned last
    seen,         \* key -> value -> expiry: what the cached lookups have returned
    proc,         \* the process: startup phase, allChains loaded, exit code
    sj            \* an application of safeStringify: argument and result

\* The gateway's variables and the tool layer's variables.
gvars == <<transports, tobj, issued, running, last>>
pvars == <<proc, sj>>
tvars == <<cache, now, ticks, inv, fin, seen, pvars>>
vars == <<transports, tobj, issued, running, last, cache, now, ticks, inv, fin, seen,
          proc, sj>>

\* Lookup with a most-recent-session fallback: any registered key resolves to
\* the transport registered last.
Lookup_mostRecent(reg, key) ==
    IF key \in DOMAIN reg
    THEN TransportRef(CHOOSE t \in {reg[k] : k \in DOMAIN reg} :
                        \A k \in DOMAIN reg : reg[k] <= t)
    ELSE IF key \in ProtoProps THEN ProtoValue(key)
    ELSE Undefined

\* transports[key]: an own property, else a property inherited from
\* Object.prototype, else undefined.
Lookup(reg, key) ==
    IF key \in DOMAIN reg THEN TransportRef(reg[key])
    ELSE IF key \in ProtoProps THEN ProtoValue(key)
    ELSE Undefined

\* transports[sessionId] = transport
Store(reg, key, t) == [k \in DOMAIN reg \cup {key} |-> IF k = key THEN t ELSE reg[k]]

\* delete transports[sessionId]
Delete(reg, key) == [k \in DOMAIN reg \ {key} |-> reg[k]]

\* A transport right after `new StreamableHTTPServerTransport({...})`,
\* together with the position (pc) of the POST handler that constructed it.
NewTransport ==
    [sessionId |-> <<>>,      \* transport.sessionId, <<>> while undefined
     onclose   |-> FALSE,     \* transport.onclose installed by the gateway
     connected |-> FALSE,     \* server.connect(transport) has been called
     pc        |-> "constructed",
     closes    |-> 0]         \* times the close callback has run

\* What the HTTP boundary shows of one handler step: the request, what the
\* handler did with it (outcome), the response the gateway itself wrote
\* (status 0 and NoBody when it wrote none), the value the request was handed
\* to, the session id sent back (sid), and what the step did to the registry:
\*   live   the request's token was an own key of the registry before the step
\*   closed the close callback of the token's session had run before the step
\*   kept   the step left the registry as it was
\*   bound  the value the registry holds under sid after the step
\*   made   the number of transports the step constructed
Event(m, hdr, body, outcome, status, rbody, target, sid, before, after, closedBefore, made) ==
    [method |-> m, hdr |-> hdr, body |-> body, outcome |-> outcome,
     status |-> status, rbody |-> rbody, target |-> target, sid |-> sid,
     live |-> (Len(hdr) = 1 /\ hdr[1] \in DOMAIN before),
     closed |-> (Len(hdr) = 1 /\ hdr[1] \in closedBefore),
     kept |-> (before = after),
     bound |-> IF sid = <<>> THEN Undefined ELSE Lookup(after, sid[1]),
     made |-> made]

NoEvent ==
    [method |-> "NONE", hdr |-> <<>>, body |-> [method |-> "", params |-> ""],
     outcome |-> "none", status |-> 0, rbody |-> NoBody, target |-> Undefined,
     sid |-> <<>>, live |-> FALSE, closed |-> FALSE, kept |-> TRUE,
     bound |-> Undefined, made |-> 0]

\* Ids whose session's close callback has run.
ClosedIds ==
    { tobj[t].sessionId[1] :
        t \in { u \in 1..Len(tobj) : tobj[u].closes > 0 /\ tobj[u].sessionId # <<>> } }

\* A value a remote call returns and a handler stores and serializes: which
\* data it is (id) and, where it is a token list, how many tokens it lists (n).
Payload(id, n) == [id |-> id, n |-> n]

\* The JavaScript value undefined, as _cache.get returns it on a miss.
Missing == Payload("undefined", 0)

\* A tools/call request: the tool's name and its (string) arguments.
Call(tool, chain, token) == [tool |-> tool, chain |-> chain, token |-> token]

\* No reply yet.
NoEnvelope == [form |-> "none", fields |-> {}, carries |-> "nothing", v |-> Missing]

NoCall == Call("", "", "")
Finished == [pc |-> "done", t |-> 0, call |-> NoCall, step |-> 0, stale |-> FALSE]
NoFin ==
    [id |-> 0, t |-> 0, call |-> NoCall, hit |-> FALSE, stale |-> FALSE,
     calls |-> 0, failed |-> FALSE, stored |-> FALSE, got |-> Missing,
     raw |-> Missing, kind |-> "none", env |-> NoEnvelope, entry |-> <<>>, raced |-> FALSE,
     repeat |-> FALSE]

\* The process: `phase` is "starting" while the top-level await of the chain
\* list is pending, "listening" once app.listen has run, "exited" when the
\* process has ended; `chains` tells whether allChains holds the list; `exit`
\* is the exit status (-1 while the process runs).
Process(phase, chains, exit) == [phase |-> phase, chains |-> chains, exit |-> exit]
Starting == Process("starting", FALSE, -1)
Listening == Process("listening", TRUE, -1)

\* A JavaScript value handed to JSON serialization: its type; the text of a
\* string (s); the sign and the magnitude, in 16-bit limbs with the most
\* significant first, of a number or a bigint (neg, limbs); the keys and
\* members of an object or
\* the elements of an array (keys, items).  For a bigint, s records the
\* decimal numeral of the literal that denotes it; no conversion reads it.
JV(type, s, neg, limbs, keys, items) ==
    [type |-> type, s |-> s, neg |-> neg, limbs |-> limbs, keys |-> keys,
     items |-> items]
JNull == JV("null", "", FALSE, <<>>, <<>>, <<>>)
JString(s) == JV("string", s, FALSE, <<>>, <<>>, <<>>)
JNumber(neg, limbs) == JV("number", "", neg, limbs, <<>>, <<>>)
JBigInt(s, neg, limbs) == JV("bigint", s, neg, limbs, <<>>, <<>>)
JArray(items) == JV("array", "", FALSE, <<>>, <<>>, items)
JObject(keys, items) == JV("object", "", FALSE, <<>>, keys, items)

\* safeStringify has not been applied.
NotApplied == [pc |-> "idle", arg |-> JNull, out |-> ""]

Init ==
    /\ transports = <<>>
    /\ tobj = <<>>
    /\ issued = 0
    /\ running = 0
    /\ last = NoEvent
    /\ cache = <<>>
    /\ now = 0
    /\ ticks = 0
    /\ inv = <<>>
    /\ fin = NoFin
    /\ seen = <<>>
    /\ proc = Listening
    /\ sj = NotApplied

\* ------------------------------------------------------- routing decisions
\* The POST branches with the isInitializeRequest test left out of the second.
PostBranch_anyBody(reg, hdr, body) ==
    IF HasSessionId(hdr) /\ Truthy(Lookup(reg, hdr[1])) THEN "existing"
    ELSE IF ~HasSessionId(hdr) THEN "new"
    ELSE "reject"

\* The if / else-if / else of app.post("/mcp").
PostBranch(reg, hdr, body) ==
    IF HasSessionId(hdr) /\ Truthy(Lookup(reg, hdr[1])) THEN "existing"
    ELSE IF ~HasSessionId(hdr) /\ isInitializeRequest(body) THEN "new"
    ELSE "reject"

\* The guard of handleSessionRequest (GET and DELETE).
SessionBranch(reg, hdr) ==
    IF ~HasSessionId(hdr) \/ ~Truthy(Lookup(reg, hdr[1])) THEN "reject"
    ELSE "existing"

\* transport.handleRequest(req, res, ...) on the looked-up value: a transport
\* takes the request; any other value has no handleRequest method and the
\* call throws a TypeError out of the async handler.
HandOff(v) == IF v.kind = "transport" THEN "dispatched" ELSE "threw"

\* A generator that hands out the same id every time.
sessionIdGenerator_fixed(n) == UUID(1)

\* sessionIdGenerator: () => randomUUID(), given the number of ids issued.
sessionIdGenerator(n) == UUID(n + 1)

\* An initialization callback that does not store the transport.
onsessioninitialized_noStore(reg, sessionId, t) == reg

\* onsessioninitialized: (sessionId) => { transports[sessionId] = transport }
onsessioninitialized(reg, sessionId, t) == Store(reg, sessionId, t)

\* A close callback that leaves the registry entry in place.
onclose_noDelete(reg, tr) == reg

\* transport.onclose = () => { if (transport.sessionId) delete transports[...] }
onclose(reg, tr) ==
    IF tr.sessionId # <<>> THEN Delete(reg, tr.sessionId[1]) ELSE reg

\* ------------------------------------------------------------------ actions
\* A first branch that suspends between its lookup and the hand-off: the
\* request reaches the transport it looked up while the session was open,
\* after the session's close callback has run.
PostExisting_stale(hdr, body) ==
    /\ running = 0
    /\ HasSessionId(hdr)
    /\ \/ PostBranch(transports, hdr, body) = "existing"
       \/ hdr[1] \in ClosedIds
    /\ LET v == IF hdr[1] \in ClosedIds
                THEN TransportRef(CHOOSE t \in 1..Len(tobj) : tobj[t].sessionId = hdr)
                ELSE Lookup(transports, hdr[1]) IN
         last' = Event("POST", hdr, body, HandOff(v), 0, NoBody, v, <<>>,
                       transports, transports, ClosedIds, 0)
    /\ UNCHANGED <<transports, tobj, issued, running>>

\* POST /mcp, first branch: reuse the existing transport and hand the request
\* to it.  There is no await between the lookup and the hand-off.
PostExisting(hdr, body) ==
    /\ running = 0
    /\ PostBranch(transports, hdr, body) = "existing"
    /\ LET v == Lookup(transports, hdr[1]) IN
         last' = Event("POST", hdr, body, HandOff(v), 0, NoBody, v, <<>>,
                       transports, transports, ClosedIds, 0)
    /\ UNCHANGED <<transports, tobj, issued, running>>

\* A new-session branch that generates the id and stores the transport as
\* soon as it has constructed it.
PostNew_registering(hdr, body) ==
    /\ running = 0
    /\ Len(tobj) < MaxTransports
    /\ PostBranch(transports, hdr, body) = "new"
    /\ tobj' = Append(tobj, [NewTransport EXCEPT
                               !.sessionId = <<sessionIdGenerator(issued)>>])
    /\ running' = Len(tobj) + 1
    /\ transports' = Store(transports, sessionIdGenerator(issued), Len(tobj) + 1)
    /\ issued' = issued + 1
    /\ last' = Event("POST", hdr, body, "constructing", 0, NoBody,
                     TransportRef(Len(tobj) + 1), <<>>, transports,
                     Store(transports, sessionIdGenerator(issued), Len(tobj) + 1),
                     ClosedIds, 1)

\* POST /mcp, second branch, up to the construction of the transport.
PostNew(hdr, body) ==
    /\ running = 0
    /\ Len(tobj) < MaxTransports
    /\ PostBranch(transports, hdr, body) = "new"
    /\ tobj' = Append(tobj, NewTransport)
    /\ running' = Len(tobj) + 1
    /\ last' = Event("POST", hdr, body, "constructing", 0, NoBody,
                     TransportRef(Len(tobj) + 1), <<>>, transports, transports,
                     ClosedIds, 1)
    /\ UNCHANGED <<transports, issued>>

\* The new-session branch going on to connect without installing onclose.
SetOnclose_skipped(t) ==
    /\ running = t
    /\ tobj[t].pc = "constructed"
    /\ tobj' = [tobj EXCEPT ![t].pc = "oncloseSet"]
    /\ UNCHANGED <<transports, issued, running, last>>

\* POST /mcp, second branch: transport.onclose = () => {...}
SetOnclose(t) ==
    /\ running = t
    /\ tobj[t].pc = "constructed"
    /\ tobj' = [tobj EXCEPT ![t].onclose = TRUE, ![t].pc = "oncloseSet"]
    /\ UNCHANGED <<transports, issued, running, last>>

\* POST /mcp, second branch: new McpServer, the tool registrations and
\* `await server.connect(transport)`; the await ends the synchronous section.
ServerConnect(t) ==
    /\ running = t
    /\ tobj[t].pc = "oncloseSet"
    /\ tobj' = [tobj EXCEPT ![t].connected = TRUE, ![t].pc = "connecting"]
    /\ running' = 0
    /\ UNCHANGED <<transports, issued, last>>

\* POST /mcp, second branch: `await transport.handleRequest(req, res, req.body)`
\* where the transport accepts the initialize request: it generates its
\* session id, calls onsessioninitialized and answers with the id.
HandleInit(t) ==
    /\ running = 0
    /\ tobj[t].pc = "connecting"
    /\ LET id == sessionIdGenerator(issued)
           reg == onsessioninitialized(transports, id, t) IN
         /\ issued' = issued + 1
         /\ tobj' = [tobj EXCEPT ![t].sessionId = <<id>>, ![t].pc = "done"]
         /\ transports' = reg
         /\ last' = Event("POST", NoSessionId, InitBody, "initialized", 0,
                          NoBody, TransportRef(t), <<id>>, transports, reg,
                          ClosedIds, 0)
    /\ UNCHANGED running

\* POST /mcp, second branch: transport.handleRequest where the transport
\* itself refuses the request (e.g. an unacceptable Accept header) before it
\* initializes a session.
HandleInitRefused(t) ==
    /\ running = 0
    /\ tobj[t].pc = "connecting"
    /\ tobj' = [tobj EXCEPT ![t].pc = "done"]
    /\ last' = Event("POST", NoSessionId, InitBody, "refused", 0, NoBody,
                     TransportRef(t), <<>>, transports, transports, ClosedIds, 0)
    /\ UNCHANGED <<transports, issued, running>>

\* POST /mcp, else branch: res.status(400).json({...}); return.
PostReject(hdr, body) ==
    /\ running = 0
    /\ PostBranch(transports, hdr, body) = "reject"
    /\ last' = Event("POST", hdr, body, "rejected", 400, PostRejectBody,
                     Undefined, <<>>, transports, transports, ClosedIds, 0)
    /\ UNCHANGED <<transports, tobj, issued, running>>

\* handleSessionRequest (GET, DELETE), guard true: res.status(400).send(...).
SessionReject(m, hdr) ==
    /\ running = 0
    /\ SessionBranch(transports, hdr) = "reject"
    /\ last' = Event(m, hdr, [method |-> "", params |-> ""], "rejected", 400,
                     SessionRejectBody, Undefined, <<>>, transports, transports,
                     ClosedIds, 0)
    /\ UNCHANGED <<transports, tobj, issued, running>>

\* handleSessionRequest removing the entry itself when it routes a DELETE.
SessionRoute_deleting(m, hdr) ==
    /\ running = 0
    /\ SessionBranch(transports, hdr) = "existing"
    /\ LET v == Lookup(transports, hdr[1])
           reg == IF m = "DELETE" THEN Delete(transports, hdr[1]) ELSE transports IN
         /\ transports' = reg
         /\ last' = Event(m, hdr, [method |-> "", params |-> ""], HandOff(v), 0,
                          NoBody, v, <<>>, transports, reg, ClosedIds, 0)
    /\ UNCHANGED <<tobj, issued, running>>

\* handleSessionRequest (GET, DELETE), guard false: look the transport up and
\* hand the request to it.
SessionRoute(m, hdr) ==
    /\ running = 0
    /\ SessionBranch(transports, hdr) = "existing"
    /\ LET v == Lookup(transports, hdr[1]) IN
         last' = Event(m, hdr, [method |-> "", params |-> ""], HandOff(v), 0,
                       NoBody, v, <<>>, transports, transports, ClosedIds, 0)
    /\ UNCHANGED <<transports, tobj, issued, running>>

\* The transport of an initialized session signals closure (it handled a
\* DELETE, or its server was closed): its onclose callback, if one is
\* installed, runs.  The environment may signal closure more than once.
Close(t) ==
    /\ running = 0
    /\ tobj[t].sessionId # <<>>
    /\ tobj[t].closes < MaxCloses
    /\ transports' = IF tobj[t].onclose THEN onclose(transports, tobj[t])
                     ELSE transports
    /\ tobj' = [tobj EXCEPT ![t].closes = @ + 1]
    /\ UNCHANGED <<issued, running, last>>

\* The gateway's steps; none of them touches the tool layer.
Next ==
    \/ \E hdr \in Headers, body \in Bodies :
          PostExisting(hdr, body) /\ UNCHANGED tvars
    \/ \E hdr \in Headers, body \in Bodies :
          PostNew(hdr, body) /\ UNCHANGED tvars
    \/ \E hdr \in Headers, body \in Bodies :
          PostReject(hdr, body) /\ UNCHANGED tvars
    \/ \E t \in 1..Len(tobj) : SetOnclose(t) /\ UNCHANGED tvars
    \/ \E t \in 1..Len(tobj) : ServerConnect(t) /\ UNCHANGED tvars
    \/ \E t \in 1..Len(tobj) : HandleInit(t) /\ UNCHANGED tvars
    \/ \E t \in 1..Len(tobj) : HandleInitRefused(t) /\ UNCHANGED tvars
    \/ \E m \in {"GET", "DELETE"}, hdr \in Headers :
          SessionReject(m, hdr) /\ UNCHANGED tvars
    \/ \E m \in {"GET", "DELETE"}, hdr \in Headers :
          SessionRoute(m, hdr) /\ UNCHANGED tvars
    \/ \E t \in 1..Len(tobj) : Close(t) /\ UNCHANGED tvars

Spec == Init /\ [][Next]_vars

\* ---------------------------------------------------------------- startup
\* The top-level `await getChains()` returns: the module goes on, without
\* another await, to createConfig, to the registration of the three routes
\* and to app.listen.
StartupFetched ==
    /\ proc.phase = "starting"
    /\ proc' = Listening
    /\ UNCHANGED <<gvars, cache, now, ticks, inv, fin, seen, sj>>

\* A startup that logs the failure of the fetch and goes on to listen.
StartupFailed_swallowed ==
    /\ proc.phase = "starting"
    /\ proc' = Process("listening", FALSE, -1)
    /\ UNCHANGED <<gvars, cache, now, ticks, inv, fin, seen, sj>>

\* The top-level `await getChains()` rejects: the evaluation of the module
\* fails with nothing to catch it and Node ends the process with status 1.
StartupFailed ==
    /\ proc.phase = "starting"
    /\ proc' = Process("exited", FALSE, 1)
    /\ UNCHANGED <<gvars, cache, now, ticks, inv, fin, seen, sj>>

\* The routes answer once the listener is up.
Accepting == proc.phase = "listening"

\* The process from the start of the module's evaluation.
BootInit ==
    /\ transports = <<>>
    /\ tobj = <<>>
    /\ issued = 0
    /\ running = 0
    /\ last = NoEvent
    /\ cache = <<>>
    /\ now = 0
    /\ ticks = 0
    /\ inv = <<>>
    /\ fin = NoFin
    /\ seen = <<>>
    /\ proc = Starting
    /\ sj = NotApplied

BootNext ==
    \/ StartupFetched
    \/ StartupFailed
    \/ Accepting /\ Next

BootSpec == BootInit /\ [][BootNext]_vars

\* ------------------------------------------------------------ serialization
\* The nesting depth of the values serialized.
MaxDepth == 2

\* A magnitude without its leading zero limbs.
RECURSIVE Norm(_)
Norm(limbs) == IF limbs # <<>> /\ limbs[1] = 0 THEN Norm(Tail(limbs)) ELSE limbs

\* Long division of a magnitude by ten, from the most significant limb: the
\* quotient's limbs and the remainder.
RECURSIVE DivTen(_, _, _, _)
DivTen(limbs, i, r, q) ==
    IF i > Len(limbs) THEN [q |-> q, r |-> r]
    ELSE LET x == 65536 * r + limbs[i] IN
           DivTen(limbs, i + 1, x % 10, Append(q, x \div 10))

\* The decimal digits of a magnitude, most significant first; none for zero.
RECURSIVE Digits(_)
Digits(limbs) ==
    IF Norm(limbs) = <<>> THEN <<>>
    ELSE LET d == DivTen(Norm(limbs), 1, 0, <<>>) IN Append(Digits(d.q), d.r)

DigitChar(d) ==
    CASE d = 0 -> "0" [] d = 1 -> "1" [] d = 2 -> "2" [] d = 3 -> "3"
      [] d = 4 -> "4" [] d = 5 -> "5" [] d = 6 -> "6" [] d = 7 -> "7"
      [] d = 8 -> "8" [] d = 9 -> "9"

RECURSIVE Numeral(_)
Numeral(ds) == IF ds = <<>> THEN "" ELSE DigitChar(Head(ds)) \o Numeral(Tail(ds))

\* The text of a number that is an integer.
NumberToString(neg, limbs) ==
    IF Digits(limbs) = <<>> THEN "0"
    ELSE (IF neg THEN "-" ELSE "") \o Numeral(Digits(limbs))

\* A conversion through a 64-bit unsigned integer: only the four least
\* significant limbs of the magnitude survive.
BigIntToString_uint64(neg, limbs) ==
    LET m == SubSeq(limbs, IF Len(limbs) > 4 THEN Len(limbs) - 3 ELSE 1,
                    Len(limbs)) IN
      IF Digits(m) = <<>> THEN "0"
      ELSE (IF neg THEN "-" ELSE "") \o Numeral(Digits(m))

\* v.toString() of a bigint: every decimal digit of the magnitude.
BigIntToString(neg, limbs) ==
    IF Digits(limbs) = <<>> THEN "0"
    ELSE (IF neg THEN "-" ELSE "") \o Numeral(Digits(limbs))

\* The replacer safeStringify passes: a bigint becomes the string of its
\* digits, anything else is left as it is.
Replacer(v) ==
    IF v.type = "bigint" THEN JString(BigIntToString(v.neg, v.limbs)) ELSE v

\* A JSON string literal (the strings drawn need no escaping).
Quote(s) == "\"" \o s \o "\""

TypeError == "TypeError: Do not know how to serialize a BigInt"

\* JSON.stringify meets a bigint that no replacer has converted.
RECURSIVE Throws(_, _)
Throws(v0, safe) ==
    LET v == IF safe THEN Replacer(v0) ELSE v0 IN
      \/ v.type = "bigint"
      \/ \E i \in 1..Len(v.items) : Throws(v.items[i], safe)

\* JSON.stringify's text for a value and for the members of an object or the
\* elements of an array from the i-th on; the replacer, if any, is applied to
\* each value before it is serialized.
RECURSIVE Text(_, _)
RECURSIVE Members(_, _, _)
Text(v0, safe) ==
    LET v == IF safe THEN Replacer(v0) ELSE v0 IN
      CASE v.type = "null" -> "null"
        [] v.type = "string" -> Quote(v.s)
        [] v.type = "number" -> NumberToString(v.neg, v.limbs)
        [] v.type = "array" -> "[" \o Members(v, 1, safe) \o "]"
        [] v.type = "object" -> "{" \o Members(v, 1, safe) \o "}"
Members(v, i, safe) ==
    IF i > Len(v.items) THEN ""
    ELSE (IF i > 1 THEN "," ELSE "")
           \o (IF v.type = "object" THEN Quote(v.keys[i]) \o ":" ELSE "")
           \o Text(v.items[i], safe) \o Members(v, i + 1, safe)

\* JSON.stringify(v), with safeStringify's replacer or with none.
Stringify(v, safe) == IF Throws(v, safe) THEN TypeError ELSE Text(v, safe)
safeStringify(obj) == Stringify(obj, TRUE)

\* The magnitude 2^n + low, for n of 16 or more and low below 65536.
PowerOfTwoPlus(n, low) ==
    [i \in 1..((n \div 16) + 1) |->
        IF i = 1 THEN 2 ^ (n % 16)
        ELSE IF i = (n \div 16) + 1 THEN low ELSE 0]

\* The scalar values serialized: null, a string, the number 42, and the
\* bigints 2^53 + 1, 2^64 and -(2^100 + 1).
Atoms ==
    { JNull, JString("a"), JNumber(FALSE, <<42>>),
      JBigInt("9007199254740993", FALSE, PowerOfTwoPlus(53, 1)),
      JBigInt("18446744073709551616", FALSE, PowerOfTwoPlus(64, 0)),
      JBigInt("-1267650600228229401496703205377", TRUE, PowerOfTwoPlus(100, 1)) }

\* The values of nesting depth up to d: a value inside an array, alone or
\* after a scalar, or inside an object.
RECURSIVE Values(_)
Values(d) ==
    IF d = 0 THEN Atoms
    ELSE LET P == Values(d - 1) IN
           P \cup { JArray(<<v>>) : v \in P }
             \cup { JArray(<<a, v>>) : a \in Atoms, v \in P }
             \cup { JObject(<<"k">>, <<v>>) : v \in P }

\* safeStringify(obj) returns.
SafeStringifyApply ==
    /\ sj.pc = "idle"
    /\ sj' = [sj EXCEPT !.pc = "done", !.out = safeStringify(sj.arg)]
    /\ UNCHANGED <<gvars, cache, now, ticks, inv, fin, seen, proc>>

StringifyInit ==
    /\ transports = <<>>
    /\ tobj = <<>>
    /\ issued = 0
    /\ running = 0
    /\ last = NoEvent
    /\ cache = <<>>
    /\ now = 0
    /\ ticks = 0
    /\ inv = <<>>
    /\ fin = NoFin
    /\ seen = <<>>
    /\ proc = Listening
    /\ sj \in { [pc |-> "idle", arg |-> v, out |-> ""] : v \in Values(MaxDepth) }

StringifyNext == SafeStringifyApply

StringifySpec == StringifyInit /\ [][StringifyNext]_vars

TypeOK ==
    /\ DOMAIN transports \subseteq UUIDs
    /\ \A k \in DOMAIN transports : transports[k] \in 1..Len(tobj)
    /\ Len(tobj) <= MaxTransports
    /\ issued \in 0..MaxTransports
    /\ running \in 0..Len(tobj)

\* ================================================================ tools
\* The tool handlers every session's McpServer registers (index.ts:999-1704)
\* and the process-wide cache they share.

\* Number of tool invocations a run may start.
MaxCalls == 3
\* Number of times the clock may advance.
MaxTicks == 1

\* const cacheTTL = 60 * 60 * 24, and the literal 60 * 5 of tokens-one-chain.
cacheTTL == 86400
tokensTTL == 300

\* The clock advances by the short TTL, or by a second more than the long one.
TickSteps == {tokensTTL, cacheTTL + 1}

\* Payloads the remote service may answer with: two versions of the data, one
\* listing 26 tokens for the chain asked about and one listing 3.
RemoteValues == { Payload("v1", 26), Payload("v2", 3) }
\* A returned payload the handler's own processing of it chokes on (a list
\* that is missing, a body that does not parse, a value JSON cannot encode).
Malformed == Payload("malformed", 0)
\* The invocations the model issues: the three cached lookups (the token
\* lookup with two argument pairs), the four live-state tools, and swap.
CachedCalls ==
    { Call("chains", "", ""), Call("tokens-one-chain", "a", ""),
      Call("token", "a", "b-c"), Call("token", "a-b", "c") }
LiveCalls ==
    { Call("token-balance", "a", "b-c"), Call("token-allowance", "a", "b-c"),
      Call("status", "", "h"), Call("gas-price", "1", "") }
Calls == CachedCalls \cup LiveCalls \cup { Call("swap", "1", "t") }

\* The body of a POST that asks the session's server to run a tool.
ToolCallBody == [method |-> "tools/call", params |-> "ok"]

\* Keys with the balance tool cached as well.
CacheKey_balanceCached(call) ==
    CASE call.tool = "chains" -> "chains"
      [] call.tool = "tokens-one-chain" ->
            "tokens-" \o (IF call.chain # "" THEN call.chain ELSE "all")
      [] call.tool = "token" -> "token-" \o call.chain \o "-" \o call.token
      [] call.tool = "token-balance" ->
            "balance-" \o call.chain \o "-" \o call.token
      [] OTHER -> ""

\* The key a handler uses with _cache.get / _cache.set; "" for the handlers
\* that never touch the cache.
CacheKey(call) ==
    CASE call.tool = "chains" -> "chains"
      [] call.tool = "tokens-one-chain" ->
            "tokens-" \o (IF call.chain # "" THEN call.chain ELSE "all")
      [] call.tool = "token" -> "token-" \o call.chain \o "-" \o call.token
      [] OTHER -> ""

\* The handler consults the cache.
UsesCache(call) == CacheKey(call) # ""

\* One TTL for every cached lookup.
TTLOf_uniform(call) == cacheTTL

\* The ttl argument of the handler's _cache.set.
TTLOf(call) == IF call.tool = "tokens-one-chain" THEN tokensTTL ELSE cacheTTL

\* The remote calls a handler awaits, in order.
RemoteCalls(call) ==
    CASE call.tool = "chains" -> <<"getChains">>
      [] call.tool = "tokens-one-chain" -> <<"getTokens">>
      [] call.tool = "token" -> <<"getToken">>
      [] call.tool = "token-balance" -> <<"getToken", "getTokenBalance">>
      [] call.tool = "token-allowance" -> <<"getToken", "getTokenAllowance">>
      [] call.tool = "status" -> <<"getStatus">>
      [] call.tool = "gas-price" -> <<"fetch">>
      [] call.tool = "swap" -> <<"getQuote">>

\* How a remote call can end: it returns a payload, it returns a payload the
\* handler cannot process, it throws, or (fetch) it answers a non-2xx status.
RemoteOutcomes ==
    { [kind |-> "value", v |-> v] : v \in RemoteValues }
      \cup { [kind |-> "value", v |-> Malformed],
             [kind |-> "throw", v |-> Missing],
             [kind |-> "http-error", v |-> Missing] }

\* The outcomes drawn where the cache is studied (the payload's version
\* matters) and where the envelopes are (the kind of failure matters).
CacheOutcomes == { o \in RemoteOutcomes : o.kind \in {"value", "throw"} /\ o.v # Malformed }
ToolOutcomes == { o \in RemoteOutcomes : o.v.id # "v2" }

\* ----------------------------------------------------------------- NodeCache
\* A cache whose entries never expire.
Expired_never(e, t) == FALSE

\* An entry is expired once its expiry lies strictly before the clock.
Expired(e, t) == e.expires < t

\* _cache.get(key): the value of a present, unexpired entry, else undefined.
CacheGet(c, key, t) ==
    IF key \in DOMAIN c /\ ~Expired(c[key], t) THEN c[key].value ELSE Missing

\* The cache after _cache.get(key): an expired entry is deleted on access.
CacheAfterGet(c, key, t) ==
    IF key \in DOMAIN c /\ Expired(c[key], t)
    THEN [k \in DOMAIN c \ {key} |-> c[k]]
    ELSE c

\* _cache.set(key, value, ttl) by invocation `by` for request `call`: value
\* and expiry are replaced together.
CacheSet(c, key, value, ttl, t, by, call) ==
    [k \in DOMAIN c \cup {key} |->
        IF k = key
        THEN [value |-> value, expires |-> t + ttl, ttl |-> ttl,
              by |-> by, call |-> call]
        ELSE c[k]]

\* ----------------------------------------------------------------- envelopes
\* What a handler hands back: the member it fills (content or
\* structuredContent), the field names of structuredContent, and what the
\* text or the fields carry (data, or a failure message).
Raised == [form |-> "raised", fields |-> {}, carries |-> "exception", v |-> Missing]

\* The return statement of the try block.
SuccessEnvelope(call, v) ==
    CASE call.tool = "swap" ->
            [form |-> "structuredContent",
             fields |-> {"params", "protocol", "quote"},
             carries |-> "data", v |-> v]
      [] call.tool = "token-balance" ->
            [form |-> "structuredContent", fields |-> {"balance"},
             carries |-> "data", v |-> v]
      [] OTHER ->
            [form |-> "content", fields |-> {}, carries |-> "data", v |-> v]

\* The return statement of the catch block.
FailureEnvelope(call) ==
    CASE call.tool = "swap" ->
            [form |-> "structuredContent",
             fields |-> {"params", "protocol", "error"},
             carries |-> "message", v |-> Missing]
      [] call.tool = "token-balance" ->
            [form |-> "structuredContent", fields |-> {"error"},
             carries |-> "message", v |-> Missing]
      [] OTHER ->
            [form |-> "content", fields |-> {}, carries |-> "message", v |-> Missing]

\* The tool is registered with an outputSchema.
HasOutputSchema(call) == call.tool \in {"swap", "token-balance"}

\* The fields of the tool's outputSchema that are not marked optional().
RequiredFields(call) ==
    CASE call.tool = "swap" -> {"params", "protocol"}
      [] call.tool = "token-balance" -> {"balance"}
      [] OTHER -> {}

\* The handler serializes the result itself (safeStringify); swap hands the
\* quote on as it is.
Serializes(call) == call.tool # "swap"

\* A handler whose return statement lies after its try block.
InTry_serializeOutside(call, stage) == stage \in {"remote", "process"}

\* Every statement of a handler that can throw (the awaited remote call, the
\* processing of its result, the serialization in the return statement) lies
\* inside the handler's try block.
InTry(call, stage) == stage \in {"remote", "process", "serialize"}

\* What the handler returns when `stage` throws.
OnThrow(call, stage) ==
    IF InTry(call, stage) THEN FailureEnvelope(call) ELSE Raised

\* ---------------------------------------------------------------- invocations
\* inv holds one record per invocation started, in order of arrival: the
\* handler's position while it awaits a remote call, Finished once it has
\* returned.  fin is the invocation that returned last, with what it did.
\* The entry under a key as a sequence of at most one element.
EntryOf(c, key) == IF key \in DOMAIN c THEN <<c[key]>> ELSE <<>>

\* A handler that reads the cache again after its await and prefers what
\* another invocation has stored meanwhile.
ValueReturned_fromCache(c, key, own, clock) ==
    IF key # "" /\ CacheGet(c, key, clock) # Missing THEN CacheGet(c, key, clock) ELSE own

\* The value a handler puts in its reply after its remote call returned `own`:
\* the value it computed itself, whatever the cache holds by then.
ValueReturned(c, key, own, clock) == own

\* The start of a handler, up to its first await or its return: a cached
\* lookup reads the cache and, on a hit, serializes the value and returns at
\* once; everything else goes on to its first remote call.
StartInvocation(id, t, call, c, clock, prev) ==
    LET key == CacheKey(call)
        v == IF UsesCache(call) THEN CacheGet(c, key, clock) ELSE Missing
        hit == v # Missing
        stale == UsesCache(call) /\ key \in DOMAIN c /\ ~hit IN
      IF hit
      THEN [rec |-> Finished,
            fin |-> [id |-> id, t |-> t, call |-> call, hit |-> TRUE,
                     stale |-> FALSE, calls |-> 0, failed |-> (v = Malformed),
                     stored |-> FALSE, got |-> v, raw |-> Missing,
                     kind |-> "cached",
                     env |-> IF v = Malformed THEN OnThrow(call, "serialize")
                             ELSE SuccessEnvelope(call, v),
                     entry |-> EntryOf(c, key), raced |-> FALSE,
                     repeat |-> (prev.call = call /\ ~prev.failed)]]
      ELSE [rec |-> [pc |-> "remote", t |-> t, call |-> call, step |-> 1,
                     stale |-> stale],
            fin |-> prev]

\* tokens.tokens[chain] is an array: the handler named a chain and the
\* result lists tokens for it.  Without a chain the subscript is undefined
\* and the property read gives undefined, on which .slice throws.
CanProcess(call, v) ==
    call.tool = "tokens-one-chain" => (call.chain # "" /\ v # Malformed)

\* The end index of .slice(0, 25).
SliceEnd == 25

\* A slice that keeps the whole list.
Slice_whole(v) == v

\* list.slice(0, 25): the first 25 tokens, or all of a shorter list.
Slice(v) == [v EXCEPT !.n = IF @ > SliceEnd THEN SliceEnd ELSE @]

\* What a handler makes of the value its last remote call returned, before it
\* stores and serializes it.
Processed(call, v) ==
    IF call.tool = "tokens-one-chain" /\ CanProcess(call, v) THEN Slice(v) ELSE v

\* A handler of a cached lookup that remembers a failure: its catch block
\* stores a marker under the key.
Resume_negativeCaching(rec, i, o, c, clock, prev) ==
    LET call == rec.call
        key == CacheKey(call)
        lastStep == rec.step = Len(RemoteCalls(call))
        raced == UsesCache(call) /\ CacheGet(c, key, clock) # Missing
        w == Processed(call, o.v)
        done(failed, stored, env, c2) ==
            [rec |-> Finished,
             cache |-> c2,
             fin |-> [id |-> i, t |-> rec.t, call |-> call, hit |-> FALSE,
                      stale |-> rec.stale, calls |-> rec.step,
                      failed |-> failed, stored |-> stored, got |-> w,
                      raw |-> o.v, kind |-> o.kind,
                      env |-> env, entry |-> EntryOf(c2, key),
                      raced |-> raced,
                      repeat |-> (prev.call = call /\ ~prev.failed)]]
    IN
      IF o.kind # "value"
        THEN done(TRUE, UsesCache(call), OnThrow(call, "remote"),
                  IF UsesCache(call)
                  THEN CacheSet(c, key, Malformed, TTLOf(call), clock, i, call)
                  ELSE c)
      ELSE IF ~lastStep
        THEN [rec |-> [rec EXCEPT !.step = @ + 1], cache |-> c, fin |-> prev]
      ELSE IF ~CanProcess(call, o.v)
        THEN done(TRUE, FALSE, OnThrow(call, "process"), c)
      ELSE
        LET c2 == IF UsesCache(call)
                  THEN CacheSet(c, key, w, TTLOf(call), clock, i, call)
                  ELSE c
        IN IF w = Malformed /\ Serializes(call)
           THEN done(TRUE, UsesCache(call), OnThrow(call, "serialize"), c2)
           ELSE done(FALSE, UsesCache(call),
                     SuccessEnvelope(call, ValueReturned(c, key, w, clock)),
                     c2)

\* A handler that issues a failed remote call a second time before it gives
\* up.
Resume_retrying(rec, i, o, c, clock, prev) ==
    LET call == rec.call
        key == CacheKey(call)
        lastStep == rec.step = Len(RemoteCalls(call))
        raced == UsesCache(call) /\ CacheGet(c, key, clock) # Missing
        w == Processed(call, o.v)
        done(failed, stored, env, c2, n) ==
            [rec |-> Finished,
             cache |-> c2,
             fin |-> [id |-> i, t |-> rec.t, call |-> call, hit |-> FALSE,
                      stale |-> rec.stale, calls |-> n,
                      failed |-> failed, stored |-> stored, got |-> w,
                      raw |-> o.v, kind |-> o.kind,
                      env |-> env, entry |-> EntryOf(c2, key),
                      raced |-> raced,
                      repeat |-> (prev.call = call /\ ~prev.failed)]]
    IN
      IF o.kind # "value"
        THEN done(TRUE, FALSE, OnThrow(call, "remote"), c, rec.step + 1)
      ELSE IF ~lastStep
        THEN [rec |-> [rec EXCEPT !.step = @ + 1], cache |-> c, fin |-> prev]
      ELSE IF ~CanProcess(call, o.v)
        THEN done(TRUE, FALSE, OnThrow(call, "process"), c, rec.step)
      ELSE
        LET c2 == IF UsesCache(call)
                  THEN CacheSet(c, key, w, TTLOf(call), clock, i, call)
                  ELSE c
        IN IF w = Malformed /\ Serializes(call)
           THEN done(TRUE, UsesCache(call), OnThrow(call, "serialize"), c2,
                     rec.step)
           ELSE done(FALSE, UsesCache(call),
                     SuccessEnvelope(call, ValueReturned(c, key, w, clock)),
                     c2, rec.step)

\* The rest of a handler from the point where its awaited remote call ends
\* with outcome o: its record, the cache it leaves, and what it did if it
\* returned.
Resume(rec, i, o, c, clock, prev) ==
    LET call == rec.call
        key == CacheKey(call)
        lastStep == rec.step = Len(RemoteCalls(call))
        raced == UsesCache(call) /\ CacheGet(c, key, clock) # Missing
        w == Processed(call, o.v)
        done(failed, stored, env, c2) ==
            [rec |-> Finished,
             cache |-> c2,
             fin |-> [id |-> i, t |-> rec.t, call |-> call, hit |-> FALSE,
                      stale |-> rec.stale, calls |-> rec.step,
                      failed |-> failed, stored |-> stored, got |-> w,
                      raw |-> o.v, kind |-> o.kind,
                      env |-> env, entry |-> EntryOf(c2, key),
                      raced |-> raced,
                      repeat |-> (prev.call = call /\ ~prev.failed)]]
    IN
      IF o.kind # "value" THEN done(TRUE, FALSE, OnThrow(call, "remote"), c)
      ELSE IF ~lastStep
        THEN [rec |-> [rec EXCEPT !.step = @ + 1], cache |-> c, fin |-> prev]
      ELSE IF ~CanProcess(call, o.v)
        THEN done(TRUE, FALSE, OnThrow(call, "process"), c)
      ELSE
        LET c2 == IF UsesCache(call)
                  THEN CacheSet(c, key, w, TTLOf(call), clock, i, call)
                  ELSE c
        IN IF w = Malformed /\ Serializes(call)
           THEN done(TRUE, UsesCache(call), OnThrow(call, "serialize"), c2)
           ELSE done(FALSE, UsesCache(call),
                     SuccessEnvelope(call, ValueReturned(c, key, w, clock)),
                     c2)

\* seen after invocation f returned: under its key, each value a lookup has
\* handed back so far, with the expiry of the entry it was read from or
\* written to.
Remember(s, f) ==
    LET key == CacheKey(f.call) IN
      IF f.failed \/ ~UsesCache(f.call) \/ f.entry = <<>> THEN s
      ELSE [k \in DOMAIN s \cup {key} |->
              IF k # key THEN s[k]
              ELSE LET old == IF key \in DOMAIN s THEN s[key] ELSE <<>> IN
                     [v \in DOMAIN old \cup {f.env.v} |->
                        IF v = f.env.v THEN f.entry[1].expires ELSE old[v]]]


\* ------------------------------------------------------------- tool actions
\* A server that takes up a tools/call only when no handler is waiting.
ToolCall_oneAtATime(hdr, call) ==
    /\ Len(inv) < MaxCalls
    /\ \A i \in 1..Len(inv) : inv[i].pc = "done"
    /\ PostExisting(hdr, ToolCallBody)
    /\ Lookup(transports, hdr[1]).kind = "transport"
    /\ LET s == StartInvocation(Len(inv) + 1, transports[hdr[1]], call, cache,
                                now, fin) IN
         /\ inv' = Append(inv, s.rec)
         /\ fin' = s.fin
         /\ seen' = IF s.rec.pc = "done" THEN Remember(seen, s.fin) ELSE seen
    /\ cache' = IF UsesCache(call) THEN CacheAfterGet(cache, CacheKey(call), now)
                ELSE cache
    /\ UNCHANGED <<now, ticks, pvars>>

\* A POST tools/call carrying a registered id: the gateway hands it to the
\* session's transport, whose server starts the tool handler.
ToolCall(hdr, call) ==
    /\ Len(inv) < MaxCalls
    /\ PostExisting(hdr, ToolCallBody)
    /\ Lookup(transports, hdr[1]).kind = "transport"
    /\ LET s == StartInvocation(Len(inv) + 1, transports[hdr[1]], call, cache,
                                now, fin) IN
         /\ inv' = Append(inv, s.rec)
         /\ fin' = s.fin
         /\ seen' = IF s.rec.pc = "done" THEN Remember(seen, s.fin) ELSE seen
    /\ cache' = IF UsesCache(call) THEN CacheAfterGet(cache, CacheKey(call), now)
                ELSE cache
    /\ UNCHANGED <<now, ticks, pvars>>

\* A server that drops the session of an invocation that failed.
RemoteReturn_closing(i, o) ==
    /\ inv[i].pc = "remote"
    /\ o.kind = "http-error" => RemoteCalls(inv[i].call)[inv[i].step] = "fetch"
    /\ (o.v = Malformed) => inv[i].step = Len(RemoteCalls(inv[i].call))
    /\ LET r == Resume(inv[i], i, o, cache, now, fin) IN
         /\ inv' = [inv EXCEPT ![i] = r.rec]
         /\ cache' = r.cache
         /\ fin' = r.fin
         /\ seen' = IF r.rec.pc = "done" THEN Remember(seen, r.fin) ELSE seen
         /\ transports' = IF r.rec.pc = "done" /\ r.fin.failed
                          THEN onclose(transports, tobj[inv[i].t])
                          ELSE transports
    /\ UNCHANGED <<now, ticks, pvars>>
    /\ UNCHANGED <<tobj, issued, running, last>>

\* A handler that, before it resumes, waits for every other lookup of its key
\* that is still in flight.
RemoteReturn_afterOthers(i, o) ==
    /\ inv[i].pc = "remote"
    /\ \A j \in (1..Len(inv)) \ {i} :
          ~(inv[j].pc = "remote" /\ CacheKey(inv[j].call) = CacheKey(inv[i].call))
    /\ o.kind = "http-error" => RemoteCalls(inv[i].call)[inv[i].step] = "fetch"
    /\ (o.v = Malformed) => inv[i].step = Len(RemoteCalls(inv[i].call))
    /\ LET r == Resume(inv[i], i, o, cache, now, fin) IN
         /\ inv' = [inv EXCEPT ![i] = r.rec]
         /\ cache' = r.cache
         /\ fin' = r.fin
         /\ seen' = IF r.rec.pc = "done" THEN Remember(seen, r.fin) ELSE seen
    /\ UNCHANGED <<now, ticks, pvars>>
    /\ UNCHANGED gvars

\* The remote call invocation i is waiting for ends; the handler runs on to
\* its next await or to its return.
RemoteReturn(i, o) ==
    /\ inv[i].pc = "remote"
    /\ o.kind = "http-error" => RemoteCalls(inv[i].call)[inv[i].step] = "fetch"
    /\ (o.v = Malformed) => inv[i].step = Len(RemoteCalls(inv[i].call))
    /\ LET r == Resume(inv[i], i, o, cache, now, fin) IN
         /\ inv' = [inv EXCEPT ![i] = r.rec]
         /\ cache' = r.cache
         /\ fin' = r.fin
         /\ seen' = IF r.rec.pc = "done" THEN Remember(seen, r.fin) ELSE seen
    /\ UNCHANGED <<now, ticks, pvars>>
    /\ UNCHANGED gvars

\* Time passes.
Tick(d) ==
    /\ ticks < MaxTicks
    /\ now' = now + d
    /\ ticks' = ticks + 1
    /\ UNCHANGED <<cache, inv, fin, seen, pvars>>
    /\ UNCHANGED gvars

\* NodeCache's periodic check deletes the entries that have expired.
CacheSweep ==
    /\ \E k \in DOMAIN cache : Expired(cache[k], now)
    /\ cache' = [k \in { x \in DOMAIN cache : ~Expired(cache[x], now) } |-> cache[k]]
    /\ UNCHANGED <<now, ticks, inv, fin, seen, pvars>>
    /\ UNCHANGED gvars

\* A session's transport signals closure while tools are in use.
ToolSessionClose(t) == tobj[t].closes = 0 /\ Close(t) /\ UNCHANGED tvars

\* The state in which two sessions have been initialized one after the other
\* and no tool has been called yet.
ToolInit ==
    /\ transports = [k \in {UUID(1), UUID(2)} |-> IF k = UUID(1) THEN 1 ELSE 2]
    /\ tobj = [t \in 1..2 |->
                 [NewTransport EXCEPT !.sessionId = <<UUID(t)>>,
                                      !.onclose = TRUE, !.connected = TRUE,
                                      !.pc = "done"]]
    /\ issued = 2
    /\ running = 0
    /\ last = Event("POST", NoSessionId, InitBody, "initialized", 0, NoBody,
                    TransportRef(2), <<UUID(2)>>,
                    [k \in {UUID(1)} |-> 1],
                    [k \in {UUID(1), UUID(2)} |-> IF k = UUID(1) THEN 1 ELSE 2],
                    {}, 0)
    /\ cache = <<>>
    /\ now = 0
    /\ ticks = 0
    /\ inv = <<>>
    /\ fin = NoFin
    /\ seen = <<>>
    /\ proc = Listening
    /\ sj = NotApplied

\* The two sessions' clients take turns: the mcp-session-id header of the
\* next tools/call.
Turn == <<UUID(1 + (Len(inv) % 2))>>

\* No handler is waiting for a remote call.
Idle == \A i \in 1..Len(inv) : inv[i].pc = "done"

\* The keys with an entry, with an invocation in flight, or returned before.
KeysInUse ==
    DOMAIN cache \cup DOMAIN seen
      \cup { CacheKey(inv[i].call) : i \in { j \in 1..Len(inv) : inv[j].pc = "remote" } }

\* The cached lookups over time: calls of the three cached tools from either
\* session, their remote calls returning or throwing, the clock, the sweep.
\* Entries under different keys do not affect one another (get, set and the
\* sweep act on each key by itself), so a run follows one key at a time.
CacheNext ==
    \/ \E call \in CachedCalls :
          /\ KeysInUse \subseteq {CacheKey(call)}
          /\ ToolCall(Turn, call)
    \/ \E i \in 1..Len(inv), o \in CacheOutcomes : RemoteReturn(i, o)
    \/ \E d \in TickSteps : Tick(d)
    \/ CacheSweep

CacheSpec == ToolInit /\ [][CacheNext]_vars

\* Every tool with every outcome of its remote calls, from either session,
\* one invocation at a time, while sessions close.
ToolNext ==
    \/ \E u \in UUIDs, call \in Calls : Idle /\ ToolCall(<<u>>, call)
    \/ \E i \in 1..Len(inv), o \in ToolOutcomes : RemoteReturn(i, o)
    \/ \E t \in 1..Len(tobj) : ToolSessionClose(t)

ToolSpec == ToolInit /\ [][ToolNext]_vars

\* The state in which one session has been initialized and no tool has been
\* called yet.
MixInit ==
    /\ transports = [k \in {UUID(1)} |-> 1]
    /\ tobj = <<[NewTransport EXCEPT !.sessionId = <<UUID(1)>>,
                                     !.onclose = TRUE, !.connected = TRUE,
                                     !.pc = "done"]>>
    /\ issued = 1
    /\ running = 0
    /\ last = Event("POST", NoSessionId, InitBody, "initialized", 0, NoBody,
                    TransportRef(1), <<UUID(1)>>, <<>>,
                    [k \in {UUID(1)} |-> 1], {}, 0)
    /\ cache = <<>>
    /\ now = 0
    /\ ticks = 0
    /\ inv = <<>>
    /\ fin = NoFin
    /\ seen = <<>>
    /\ proc = Listening
    /\ sj = NotApplied

\* The tool and outcomes drawn where requests overlap: a cached lookup, a
\* remote call that returns and one that throws.
MixCalls == { Call("chains", "", "") }
MixOutcomes ==
    { [kind |-> "value", v |-> Payload("v1", 26)],
      [kind |-> "throw", v |-> Missing] }

\* Tool calls that overlap with one another and with sessions being created
\* and closed.
MixNext ==
    \/ \E u \in UUIDs, call \in MixCalls : ToolCall(<<u>>, call)
    \/ \E i \in 1..Len(inv), o \in MixOutcomes : RemoteReturn(i, o)
    \/ PostNew(NoSessionId, InitBody) /\ UNCHANGED tvars
    \/ \E t \in 1..Len(tobj) : SetOnclose(t) /\ UNCHANGED tvars
    \/ \E t \in 1..Len(tobj) : ServerConnect(t) /\ UNCHANGED tvars
    \/ \E t \in 1..Len(tobj) : HandleInit(t) /\ UNCHANGED tvars
    \/ \E t \in 1..Len(tobj) : ToolSessionClose(t)

MixSpec == MixInit /\ [][MixNext]_vars

\* ToolInit is a state the gateway reaches.
\* The remote call the i-th invocation awaits returns or throws.
Returning(i) ==
    /\ i \in 1..Len(inv)
    /\ \E o \in MixOutcomes : RemoteReturn(i, o)

\* The token list of one chain, asked for with and without a chain argument,
\* with every way the remote call and the handling of its result can end.
TokensCalls ==
    { Call("tokens-one-chain", "", ""), Call("tokens-one-chain", "a", "") }
TokensOutcomes ==
    { o \in RemoteOutcomes : o.kind \in {"value", "throw"} }
TokensNext ==
    \/ \E call \in TokensCalls : ToolCall(Turn, call)
    \/ \E i \in 1..Len(inv), o \in TokensOutcomes : RemoteReturn(i, o)
    \/ \E d \in TickSteps : Tick(d)
    \/ CacheSweep

TokensSpec == ToolInit /\ [][TokensNext]_vars

\* Lookups of one session overlapping one another while the session may
\* close.
CallNext ==
    \/ \E call \in MixCalls : ToolCall(<<UUID(1)>>, call)
    \/ \E i \in 1..Len(inv), o \in MixOutcomes : RemoteReturn(i, o)
    \/ \E t \in 1..Len(tobj) : ToolSessionClose(t)

CallSpec == MixInit /\ [][CallNext]_vars

\* The same runs when no remote call stays unanswered for ever.
FairCallSpec == CallSpec /\ \A i \in 1..MaxCalls : WF_vars(Returning(i))

ToolInitReached ==
    ~(/\ transports = [k \in {UUID(1), UUID(2)} |-> IF k = UUID(1) THEN 1 ELSE 2]
      /\ \A t \in 1..2 : tobj[t].closes = 0
      /\ last.outcome = "initialized" /\ last.sid = <<UUID(2)>>
      /\ running = 0)

\* ------------------------------------------------------------ vocabulary
\* The last event is a request handled by the gateway.
IsRequest == last.method \in {"POST", "GET", "DELETE"}

\* The gateway handed the last request to the value its lookup resolved.
Resolved == last.outcome \in {"dispatched", "threw"}

\* The gateway answered the last request itself with HTTP 400.
Rejected == last.outcome = "rejected" /\ last.status = 400

\* A response body that is a structured error object: numeric code, message,
\* null id.
StructuredError(b) ==
    b.kind = "json" /\ b.code \in Int /\ b.message # "" /\ b.id = "null"

\* The last request constructed nothing, reached nothing, changed nothing.
NoEffect == last.made = 0 /\ last.kept /\ last.target = Undefined

\* The transports that hold session id `id`.
Owners(id) == { t \in 1..Len(tobj) : tobj[t].sessionId = <<id>> }

\* ------------------------------------------------------------------ claims
\* C1: a request that carries a (non-empty) session token is handed on by the
\* gateway if and only if the token is an id currently registered; no other
\* string, inherited property names included, resolves.
C1_ExactTokenOnly ==
    (IsRequest /\ HasSessionId(last.hdr)) => (Resolved <=> last.live)

\* C2: a POST carrying a session token that is not in the registry is
\* rejected with the structured 400 error whatever its body, reaches no
\* transport and leaves the registry unchanged.
C2_UnknownTokenPostRejected ==
    (last.method = "POST" /\ HasSessionId(last.hdr) /\ ~last.live)
    => (Rejected /\ StructuredError(last.rbody) /\ NoEffect)

\* C3: a POST without a session token whose body is not an initialize
\* request is rejected with the structured 400 error; nothing is constructed,
\* nothing is dispatched, the registry is unchanged.
C3_NoTokenNonInitRejected ==
    (last.method = "POST" /\ ~HasSessionId(last.hdr)
        /\ ~isInitializeRequest(last.body))
    => (Rejected /\ StructuredError(last.rbody) /\ NoEffect)

C3_Witness ==
    /\ last.method = "POST" /\ last.hdr = <<>>
    /\ last.body.method = "tools/call"
    /\ last.outcome = "rejected"
    /\ DOMAIN transports # {}

\* C4: a POST whose token is the id of a registered session is dispatched to
\* the transport that owns that id, which is the only transport owning it;
\* routing constructs no transport and leaves the registry unchanged.
C4_LivePostReachesOwner ==
    (last.method = "POST" /\ last.live)
    => /\ last.outcome = "dispatched"
       /\ last.target.kind = "transport"
       /\ Owners(last.hdr[1]) = {last.target.ref}
       /\ last.made = 0
       /\ last.kept

C4_Witness ==
    /\ last.method = "POST" /\ last.live /\ last.outcome = "dispatched"
    /\ last.hdr = <<UUID(1)>>
    /\ Cardinality(DOMAIN transports) = 2

\* C5: an initialize POST without a token constructs exactly one transport;
\* when the id is sent back it is a fresh id registered for that transport,
\* and a request that follows with that id, before the session has closed,
\* reaches that transport.
C5_InitRegistersBeforeReply ==
    /\ [](last.outcome = "constructing" =>
            (last.made = 1 /\ ~HasSessionId(last.hdr)
               /\ isInitializeRequest(last.body)))
    /\ [](last.outcome = "initialized" =>
            /\ last.sid # <<>>
            /\ last.target.kind = "transport"
            /\ last.bound = last.target
            /\ Owners(last.sid[1]) = {last.target.ref})
    /\ [][(last.outcome = "initialized" /\ tobj[last.target.ref].closes = 0
              /\ last' # last /\ last'.hdr = last.sid)
            => (last'.outcome = "dispatched" /\ last'.target = last.target)]_vars

C5_Witness ==
    /\ last.outcome = "initialized"
    /\ last.sid = <<UUID(2)>>
    /\ last.bound = TransportRef(2)
    /\ Cardinality(DOMAIN transports) = 2

\* C6: once a session's close callback has run, every request carrying its id
\* is rejected and the id is never in the registry again; a close callback
\* that runs again, or whose id is not registered, changes nothing.
C6_ClosedStaysClosed ==
    /\ []((IsRequest /\ last.closed) => (Rejected /\ NoEffect))
    /\ [](ClosedIds \cap DOMAIN transports = {})
    /\ [][\A t \in 1..Len(tobj) :
            (tobj'[t].closes = tobj[t].closes + 1
               /\ (tobj[t].closes > 0 \/ tobj[t].sessionId[1] \notin DOMAIN transports))
            => transports' = transports]_vars

C6_Witness ==
    /\ IsRequest /\ last.closed /\ last.outcome = "rejected"
    /\ \E t \in 1..Len(tobj) : tobj[t].closes = 2

\* C7: a GET or DELETE whose token is absent or not in the registry is
\* rejected with HTTP 400, reaches no transport and changes nothing.
C7_SessionRequestRejected ==
    (last.method \in {"GET", "DELETE"} /\ ~last.live) => (Rejected /\ NoEffect)

\* C8: the rejection of a GET or DELETE carries the same structured error as
\* the rejection of a POST.
C8_SameStructuredError ==
    (last.method \in {"GET", "DELETE"} /\ last.outcome = "rejected")
    => (StructuredError(last.rbody) /\ last.rbody = PostRejectBody)

\* C9: every registered id is bound to the one live transport that owns it,
\* no transport is registered under two ids, and no step overwrites or
\* replaces the entry of a registered id.
C9_OneTransportPerId ==
    /\ [](\A k \in DOMAIN transports :
            /\ Owners(k) = {transports[k]}
            /\ tobj[transports[k]].closes = 0)
    /\ [](\A k1, k2 \in DOMAIN transports :
            transports[k1] = transports[k2] => k1 = k2)
    /\ [][\A k \in DOMAIN transports \cap DOMAIN transports' :
            transports'[k] = transports[k]]_vars

C9_Witness ==
    /\ DOMAIN transports = {UUID(1), UUID(2)}
    /\ transports[UUID(1)] # transports[UUID(2)]

\* C10: the close callback is installed before the transport is connected,
\* before it handles a request and before its id is registered; every
\* registered transport has a close callback that removes its own entry.
C10_OncloseWiredFirst ==
    /\ \A t \in 1..Len(tobj) :
         (tobj[t].connected \/ tobj[t].sessionId # <<>>
            \/ tobj[t].pc \in {"connecting", "done"}) => tobj[t].onclose
    /\ \A k \in DOMAIN transports :
         /\ tobj[transports[k]].onclose
         /\ k \notin DOMAIN onclose(transports, tobj[transports[k]])
    /\ (Resolved /\ last.target.kind = "transport") => tobj[last.target.ref].onclose

C10_Witness ==
    /\ \E t \in 1..Len(tobj) : tobj[t].pc = "oncloseSet" /\ ~tobj[t].connected
    /\ DOMAIN transports # {}

\* C11: an entry leaves the registry only in a step that runs the close
\* callback of the transport registered under it, for the first time; no
\* request handler removes one, and a request carrying a registered id is
\* always handed to its transport.
C11_OnlyCloseRemoves ==
    /\ [][\A k \in DOMAIN transports \ DOMAIN transports' :
            LET t == transports[k] IN
              /\ tobj[t].sessionId = <<k>>
              /\ tobj[t].closes = 0
              /\ tobj'[t].closes = 1
              /\ last' = last]_vars
    /\ []((IsRequest /\ last.outcome # "initialized") => last.kept)
    /\ []((IsRequest /\ last.live) => last.outcome = "dispatched")

C11_Witness ==
    \E t \in 1..Len(tobj) :
        /\ tobj[t].closes = 1
        /\ tobj[t].sessionId # <<>>
        /\ tobj[t].sessionId[1] \notin DOMAIN transports
        /\ last.method = "DELETE"
        /\ last.outcome = "dispatched"
        /\ last.hdr = tobj[t].sessionId

\* ------------------------------------------------------- cached lookups
\* The step starts an invocation.
Starts == Len(inv') = Len(inv) + 1

\* The request of the invocation the step starts.
StartedCall == IF inv'[Len(inv')].pc = "remote" THEN inv'[Len(inv')].call ELSE fin'.call

\* The step is the return of an invocation.
Returns == fin' # fin

\* The values earlier lookups of a key returned from entries that have not
\* expired yet.
SeenLive(key) ==
    IF key \in DOMAIN seen
    THEN { v \in DOMAIN seen[key] : seen[key][v] >= now }
    ELSE {}

C13_RaceLastStoreWins ==
    /\ [][(Returns /\ ~fin'.hit /\ ~fin'.failed /\ UsesCache(fin'.call)) =>
            LET key == CacheKey(fin'.call) IN
              /\ fin.id # fin'.id
              /\ inv[fin'.id].pc = "remote"
              /\ fin'.calls = 1
              /\ fin'.env = SuccessEnvelope(fin'.call, fin'.got)
              /\ DOMAIN cache' = DOMAIN cache \cup {key}
              /\ cache'[key].value = fin'.got
              /\ cache'[key].by = fin'.id
              /\ cache'[key].expires = now + TTLOf(fin'.call)
              /\ \A k \in DOMAIN cache \ {key} : cache'[k] = cache[k]]_vars
    /\ [][\A key \in DOMAIN cache \cap DOMAIN cache' :
            cache'[key] # cache[key] =>
              /\ Returns /\ fin'.stored
              /\ cache'[key].by = fin'.id
              /\ cache'[key].value = fin'.got]_vars

\* Two lookups of one key, from different sessions, both missed; the one that
\* started first returned last, with its own value, over the entry the other
\* had stored with a different value.
C13_Witness ==
    /\ Len(inv) = 2 /\ Idle
    /\ fin.id = 1 /\ ~fin.hit /\ ~fin.failed /\ fin.raced /\ fin.stored
    /\ last.target.kind = "transport" /\ last.target.ref # fin.t
    /\ CacheKey(fin.call) \in DOMAIN seen
    /\ Cardinality(DOMAIN seen[CacheKey(fin.call)]) = 2
    /\ cache[CacheKey(fin.call)].value = fin.env.v
    /\ cache[CacheKey(fin.call)].by = 1

\* C14: a lookup answered from the cache returns an entry that was stored for
\* that same lookup (same tool, same arguments), and no other lookup maps to
\* the key of that entry: the mapping from lookups to keys is injective.
C14_KeyInjective ==
    fin.hit =>
      /\ fin.entry # <<>>
      /\ fin.entry[1].call = fin.call
      /\ \A c \in CachedCalls :
           CacheKey(c) = CacheKey(fin.entry[1].call) => c = fin.entry[1].call

\* ------------------------------------------------------------ live tools
\* The balance and allowance tools look the token up before their own call.
TwoCallTools == {"token-balance", "token-allowance"}
OneCallTools == {"status", "gas-price"}

\* C15: the balance, allowance, status and gas-price tools never touch the
\* cache.  Whatever the cache holds, a call of one of them goes to its first
\* remote call and leaves the cache as it is; each of its steps leaves the
\* cache as it is; when it returns a result it has made each of its remote
\* calls (two for balance and allowance, one for status and gas price); and
\* no entry of the cache was written by one of them.
C15_LiveToolsBypassCache ==
    /\ [][(Starts /\ StartedCall \in LiveCalls) =>
            /\ ~Returns
            /\ inv'[Len(inv')].pc = "remote" /\ inv'[Len(inv')].step = 1
            /\ cache' = cache]_vars
    /\ [][\A i \in 1..Len(inv) :
            (inv[i].call \in LiveCalls /\ inv'[i] # inv[i]) => cache' = cache]_vars
    /\ [](((fin.call \in LiveCalls) /\ ~fin.failed) =>
            /\ ~fin.hit
            /\ fin.call.tool \in TwoCallTools => fin.calls = 2
            /\ fin.call.tool \in OneCallTools => fin.calls = 1)
    /\ [](\A k \in DOMAIN cache : cache[k].call \in CachedCalls)

\* The balance of a token was asked twice in a row with the same arguments
\* while the cache held that token's metadata; the second call, too, made
\* both remote calls.
C15_Witness ==
    /\ fin.call = Call("token-balance", "a", "b-c")
    /\ fin.repeat /\ ~fin.failed /\ ~fin.hit
    /\ fin.calls = 2
    /\ CacheKey(Call("token", "a", "b-c")) \in DOMAIN cache

\* C16: every entry of the cache is under "chains", written by the chains
\* tool, or under "token-<chain>-<token>", written by the token tool for that
\* chain and token, both stored with a TTL of 86400 seconds, or under
\* "tokens-<chain>", written by the tokens tool for that chain with a TTL of
\* 300 seconds; the cache changes only when one of these three tools returns,
\* and the entry it leaves expires that TTL after the store.
C16_KeysAndTTLs ==
    /\ [](\A k \in DOMAIN cache :
            LET e == cache[k] IN
              \/ /\ k = "chains" /\ e.call.tool = "chains"
                 /\ e.ttl = 86400
              \/ /\ k = "token-" \o e.call.chain \o "-" \o e.call.token
                 /\ e.call.tool = "token"
                 /\ e.ttl = 86400
              \/ /\ k = "tokens-" \o e.call.chain /\ e.call.chain # ""
                 /\ e.call.tool = "tokens-one-chain"
                 /\ e.ttl = 300)
    /\ [][cache' # cache =>
            /\ Returns
            /\ fin'.call.tool \in {"chains", "token", "tokens-one-chain"}
            /\ DOMAIN cache' = DOMAIN cache \cup {CacheKey(fin'.call)}
            /\ cache'[CacheKey(fin'.call)].expires
                 = now + cache'[CacheKey(fin'.call)].ttl]_vars

\* The cache holds an entry of each of the three forms.
C16_Witness ==
    /\ "chains" \in DOMAIN cache
    /\ "tokens-a" \in DOMAIN cache
    /\ "token-a-b-c" \in DOMAIN cache
    /\ cache["tokens-a"].expires = 300
    /\ cache["chains"].expires = 86400

\* ------------------------------------------------------------- envelopes
\* C17: whatever a tool's remote calls did (returned a value, returned one
\* the handler cannot process or serialize, threw, answered a non-success
\* status), the handler has returned an envelope, never raised: the result
\* when nothing failed, the failure message otherwise.
C17_HandlerNeverRaises ==
    fin.id > 0 =>
      /\ fin.env.form \in {"content", "structuredContent"}
      /\ fin.failed => fin.env.carries = "message"
      /\ ~fin.failed => fin.env.carries = "data" /\ fin.env.v = fin.got
      /\ fin.kind \in {"throw", "http-error"} => fin.failed
      /\ (fin.got = Malformed /\ Serializes(fin.call)) => fin.failed

\* The gas-price tool's fetch answered a non-success status and the handler
\* returned the failure envelope.
C17_Witness ==
    /\ fin.id > 0 /\ fin.failed
    /\ fin.call.tool = "gas-price" /\ fin.kind = "http-error"
    /\ fin.env = FailureEnvelope(fin.call)
    /\ fin.env.carries = "message"

\* The shape of an envelope: the member it fills and the names of the fields.
Shape(env) == [form |-> env.form, fields |-> env.fields]

\* The field names under which a handler returns a result.
ResultFields == {"quote", "balance"}

\* C18: a failed invocation has returned an envelope with an error field and
\* no result, a successful one an envelope with no error field, and the two
\* differ in shape.
C18_ErrorFieldOnFailure ==
    fin.id > 0 =>
      /\ fin.failed =>
           /\ "error" \in fin.env.fields
           /\ fin.env.fields \cap ResultFields = {}
           /\ Shape(fin.env) # Shape(SuccessEnvelope(fin.call, fin.got))
      /\ ~fin.failed =>
           /\ "error" \notin fin.env.fields
           /\ Shape(fin.env) # Shape(FailureEnvelope(fin.call))

\* ------------------------------------------------------- failure and session
\* C19: the return of a failed tool invocation leaves the registry and every
\* transport as they were; while the invoking session has not been closed
\* its id stays registered to its transport, and the next tools/call POST
\* carrying that id is handed to that transport and starts a handler.
C19_FailureKeepsSession ==
    /\ [][(Returns /\ fin'.failed) =>
            transports' = transports /\ tobj' = tobj]_vars
    /\ []((fin.id > 0 /\ fin.failed /\ tobj[fin.t].closes = 0) =>
            /\ tobj[fin.t].sessionId # <<>>
            /\ Lookup(transports, tobj[fin.t].sessionId[1]) = TransportRef(fin.t))
    /\ [][(fin.id > 0 /\ fin.failed /\ tobj[fin.t].closes = 0
           /\ last' # last /\ last'.hdr = tobj[fin.t].sessionId) =>
            /\ last'.method = "POST" /\ last'.outcome = "dispatched"
            /\ last'.target = TransportRef(fin.t)
            /\ Starts]_vars

\* A token-balance invocation failed at its remote call; the same session
\* then posted another tools/call, which reached the same transport and whose
\* handler is running.
C19_Witness ==
    /\ fin.id = 1 /\ fin.failed /\ fin.call.tool = "token-balance"
    /\ fin.kind = "throw"
    /\ Len(inv) = 2 /\ inv[2].pc = "remote" /\ inv[2].t = fin.t
    /\ last.method = "POST" /\ last.outcome = "dispatched"
    /\ last.hdr = tobj[fin.t].sessionId
    /\ last.target = TransportRef(fin.t)

\* ------------------------------------------------------- failure channels
\* C20: a request whose handling failed inside the gateway (the hand-off to
\* the resolved value threw) has been answered with the structured routing
\* error: status 400 and the JSON error body.
C20_FailureSurfaced ==
    (IsRequest /\ last.outcome = "threw") =>
      /\ last.status = 400
      /\ StructuredError(last.rbody)

\* ---------------------------------------------------------------- startup
\* C21: the process listens only with the chain list loaded; as long as it
\* does not listen no request has been handled and no transport or session
\* exists; and when the fetch has failed the process has exited with a
\* nonzero status, the list not loaded, having handled nothing.
C21_ListenAfterChains ==
    /\ proc.phase = "listening" => proc.chains /\ proc.exit = -1
    /\ proc.phase # "listening" =>
         /\ last = NoEvent /\ tobj = <<>> /\ transports = <<>> /\ issued = 0
         /\ inv = <<>>
    /\ proc.phase = "exited" => ~proc.chains /\ proc.exit > 0
    /\ proc.phase \in {"starting", "listening", "exited"}

\* The fetch failed and the process has exited with status 1 without having
\* handled a request.
C21_Witness ==
    /\ proc.phase = "exited" /\ proc.exit = 1
    /\ last = NoEvent /\ tobj = <<>> /\ transports = <<>>

\* ------------------------------------------------------------ overlapping
\* Some handler is suspended at a remote call that has not returned.
Waiting == \E i \in 1..Len(inv) : inv[i].pc = "remote"

\* C22: while a handler waits for its remote call, every registered session
\* can have a tools/call routed and started, a new session can be constructed
\* and a connecting one initialized, a session can close, and every waiting
\* handler (with its cache read and write) can resume as soon as its own call
\* returns: the gateway is held only by its own synchronous section (running)
\* and the model's bounds, never by the waiting handler.
C22_WaitingBlocksNoOne ==
    Waiting =>
      /\ \A u \in DOMAIN transports :
           (running = 0 /\ Len(inv) < MaxCalls)
             => ENABLED ToolCall(<<u>>, Call("chains", "", ""))
      /\ (running = 0 /\ Len(tobj) < MaxTransports)
           => ENABLED (PostNew(NoSessionId, InitBody) /\ UNCHANGED tvars)
      /\ \A t \in 1..Len(tobj) :
           (running = 0 /\ tobj[t].pc = "connecting")
             => ENABLED (HandleInit(t) /\ UNCHANGED tvars)
      /\ \A t \in 1..Len(tobj) :
           (running = 0 /\ tobj[t].sessionId # <<>> /\ tobj[t].closes = 0)
             => ENABLED ToolSessionClose(t)
      /\ \A j \in 1..Len(inv) :
           inv[j].pc = "remote"
             => \A o \in MixOutcomes : ENABLED RemoteReturn(j, o)

\* The first session's handler is still waiting for its remote call while a
\* later call, from the second session, has returned and stored its result
\* and the second session has then been closed.
C22_Witness ==
    /\ Len(inv) >= 2 /\ inv[1].pc = "remote" /\ inv[1].t = 1
    /\ fin.id = 2 /\ fin.t = 2 /\ ~fin.failed /\ fin.stored
    /\ "chains" \in DOMAIN cache
    /\ Len(tobj) = 2 /\ tobj[2].closes = 1
    /\ UUID(2) \notin DOMAIN transports

\* ------------------------------------------------------------- no retries
\* C23: the invocation that returned issued no more remote calls than its
\* handler awaits, each once and in order; one whose remote call threw or
\* answered a non-2xx status returned a failure envelope having issued exactly
\* the calls up to the failed one; a handler moves from one remote call to the
\* next or to its return, never back, and an invocation that has returned
\* never returns again.
C23_NoRetry ==
    /\ [](fin.id # 0 =>
            /\ fin.calls <= Len(RemoteCalls(fin.call))
            /\ inv[fin.id] = Finished
            /\ fin.kind \in {"throw", "http-error"} =>
                 /\ fin.failed
                 /\ fin.env = FailureEnvelope(fin.call)
                 /\ fin.calls \in 1..Len(RemoteCalls(fin.call)))
    /\ [][\A i \in 1..Len(inv) :
            /\ inv[i].pc = "done" => inv'[i] = inv[i]
            /\ (inv[i].pc = "remote" /\ inv'[i].pc = "remote") =>
                 inv'[i].step \in {inv[i].step, inv[i].step + 1}
            /\ (inv[i].pc = "remote" /\ inv'[i].pc = "done") =>
                 /\ fin'.id = i
                 /\ fin'.calls = inv[i].step]_vars

\* The balance handler's second remote call threw after its first had
\* returned: two calls issued, one failure envelope.
C23_Witness ==
    /\ fin.call.tool = "token-balance"
    /\ fin.kind = "throw" /\ fin.calls = 2
    /\ fin.failed /\ fin.env.fields = {"error"}
    /\ inv[fin.id] = Finished

\* ---------------------------------------------------------- safeStringify
\* The value with every bigint in it replaced by the string of the decimal
\* numeral that denotes it.
RECURSIVE Debig(_)
Debig(v) ==
    IF v.type = "bigint" THEN JString(v.s)
    ELSE [v EXCEPT !.items = [i \in 1..Len(v.items) |-> Debig(v.items[i])]]

\* C24: safeStringify never throws, and its text is what plain JSON.stringify
\* gives for the same value with every bigint in it, at any depth and of any
\* magnitude, replaced by the string of its exact decimal numeral; a value
\* with no bigint in it is therefore serialized as plain JSON.stringify does.
C24_BigIntsAsExactDigits ==
    sj.pc = "done" =>
      /\ sj.out # TypeError
      /\ sj.out = Stringify(Debig(sj.arg), FALSE)
      /\ ~Throws(sj.arg, FALSE) => sj.out = Stringify(sj.arg, FALSE)

\* An object holding an array of a number and the bigint 2^53 + 1 nested
\* beside 2^64 has been serialized with every digit kept.
C24_Witness ==
    /\ sj.pc = "done"
    /\ sj.arg = JObject(<<"k">>,
                  <<JArray(<<JBigInt("18446744073709551616", FALSE,
                                     PowerOfTwoPlus(64, 0)),
                             JBigInt("9007199254740993", FALSE,
                                     PowerOfTwoPlus(53, 1))>>)>>)
    /\ sj.out = "{\"k\":[\"18446744073709551616\",\"9007199254740993\"]}"

\* -------------------------------------------------------------- completion
\* C25: when every remote call eventually returns or throws, every invocation
\* that waits for one eventually returns; what it returns is one envelope, a
\* result or an error; and wherever a handler waits, the return of its own
\* remote call is all it needs to resume, whatever other lookups of the same
\* key are in flight.
C25_EveryInvocationCompletes ==
    /\ \A i \in 1..MaxCalls :
          (i <= Len(inv) /\ inv[i].pc = "remote")
            ~> (i <= Len(inv) /\ inv[i].pc = "done")
    /\ [](\A i \in 1..Len(inv) : inv[i].pc = "remote" => ENABLED Returning(i))
    /\ [](fin.id # 0 =>
            /\ inv[fin.id].pc = "done"
            /\ fin.env \in {SuccessEnvelope(fin.call, fin.env.v),
                            FailureEnvelope(fin.call)})

\* Two lookups of one key were in flight together and both have returned, the
\* first after the second had stored its value.
C25_Witness ==
    /\ Len(inv) >= 2 /\ inv[1].pc = "done" /\ inv[2].pc = "done"
    /\ fin.id = 1 /\ fin.raced /\ fin.env.carries = "data"

\* ------------------------------------------------------ deferred registration
\* C26: a transport that has not processed its initialization request has no
\* session id and is the value of no registry entry, so no request is handed
\* to it; the construction of the transport, the installation of onclose and
\* server.connect leave the registry unchanged; a transport gets its id only
\* in the step in which it accepts the initialization request, and that step
\* stores it under that id; and when the transport refuses the request
\* instead, the step leaves the registry as it was and the transport stays
\* without an id and unregistered.
C26_RegisteredOnlyAtInit ==
    /\ [](\A t \in 1..Len(tobj) :
            tobj[t].sessionId = <<>> =>
              \A k \in DOMAIN transports : transports[k] # t)
    /\ []((last.outcome = "dispatched" /\ last.target.kind = "transport") =>
            /\ tobj[last.target.ref].sessionId # <<>>
            /\ tobj[last.target.ref].pc = "done")
    /\ [](last.outcome \in {"constructing", "refused"} =>
            /\ last.kept
            /\ last.sid = <<>>)
    /\ [][(\/ Len(tobj') > Len(tobj)
           \/ \E t \in 1..Len(tobj) :
                /\ tobj[t].sessionId = <<>> /\ tobj'[t].sessionId = <<>>
                /\ tobj'[t].pc # tobj[t].pc)
            => transports' = transports]_vars
    /\ [][\A t \in 1..Len(tobj) :
            (tobj[t].sessionId = <<>> /\ tobj'[t].sessionId # <<>>) =>
              /\ tobj[t].pc = "connecting"
              /\ tobj'[t].sessionId[1] \notin DOMAIN transports
              /\ transports' = Store(transports, tobj'[t].sessionId[1], t)
              /\ last'.outcome = "initialized"]_vars

\* With one session registered, the transport constructed for a second
\* initialization request refused it: it has no id, the registry holds the
\* first session only, as before.
C26_Witness ==
    /\ last.outcome = "refused" /\ last.kept
    /\ last.target = TransportRef(2)
    /\ tobj[2].sessionId = <<>> /\ tobj[2].pc = "done" /\ tobj[2].connected
    /\ DOMAIN transports = {UUID(1)} /\ transports[UUID(1)] = 1

\* ------------------------------------------------------- lookup and hand-off
\* C27: a request is handed to a transport only in a step that runs while no
\* other handler is in its synchronous section, that changes neither the
\* registry nor any transport, and in which the transport is the value the
\* registry holds under the request's id, of a session whose close callback
\* has not run: lookup and hand-off are one step, and the transport is
\* registered when the request reaches it.
C27_LookupAndHandOffAtomic ==
    [][(last' # last /\ last'.outcome = "dispatched"
          /\ last'.target.kind = "transport") =>
         /\ running = 0 /\ running' = 0
         /\ transports' = transports
         /\ tobj' = tobj
         /\ last'.live /\ ~last'.closed /\ last'.kept
         /\ last'.hdr[1] \in DOMAIN transports'
         /\ transports'[last'.hdr[1]] = last'.target.ref
         /\ tobj'[last'.target.ref].sessionId = last'.hdr
         /\ tobj'[last'.target.ref].closes = 0]_vars

\* A DELETE for the first session has been handed to its transport, still
\* registered, after the second session was closed.
C27_Witness ==
    /\ last.method = "DELETE" /\ last.outcome = "dispatched"
    /\ last.hdr = <<UUID(1)>> /\ last.live /\ last.target = TransportRef(1)
    /\ UUID(1) \in DOMAIN transports /\ transports[UUID(1)] = 1
    /\ Len(tobj) = 2 /\ tobj[2].closes = 1 /\ tobj[1].closes = 0
    /\ UUID(2) \notin DOMAIN transports

\* ------------------------------------------------------- failed cached lookup
\* The step starts a lookup of the key of the cached lookup that returned
\* last, and that one's remote call had thrown.
StartsAfterFailure ==
    /\ Starts
    /\ fin.id # 0 /\ fin.failed /\ fin.kind = "throw" /\ UsesCache(fin.call)
    /\ CacheKey(StartedCall) = CacheKey(fin.call)

\* C28 as stated: the lookup that follows a failed lookup of the same key
\* performs the remote call again.
C28_NextCallsRemoteAgain ==
    [][StartsAfterFailure => inv'[Len(inv')].pc = "remote"]_vars

\* C28: a cached lookup whose remote call throws returns the failure text
\* after that one call and leaves the whole cache as it was, storing nothing;
\* the lookup of the same key that follows performs the remote call again
\* unless the key holds an unexpired entry, which a different lookup has then
\* stored, and in that case it is answered from that entry.
C28_FailureStoresNothing ==
    /\ [][(Returns /\ fin'.failed /\ fin'.kind = "throw" /\ UsesCache(fin'.call)) =>
            /\ cache' = cache
            /\ ~fin'.stored
            /\ fin'.calls = 1
            /\ fin'.env = FailureEnvelope(fin'.call)]_vars
    /\ [][StartsAfterFailure =>
            LET key == CacheKey(fin.call) IN
              IF CacheGet(cache, key, now) = Missing
              THEN inv'[Len(inv')].pc = "remote"
              ELSE /\ cache[key].by # fin.id
                   /\ fin'.hit /\ fin'.calls = 0
                   /\ fin'.got = cache[key].value]_vars

\* A lookup failed while the key held nothing, and the lookup of the same key
\* that followed it is waiting for its remote call.
C28_Witness ==
    /\ Len(inv) = 2 /\ inv[1].pc = "done" /\ inv[2].pc = "remote"
    /\ fin.id = 1 /\ fin.failed /\ fin.kind = "throw" /\ ~fin.stored
    /\ CacheKey(inv[2].call) = CacheKey(fin.call)
    /\ cache = <<>>

\* ------------------------------------------------------------ output schemas
\* C29: whatever a tool with an output schema returns, on success or on
\* failure, is structuredContent holding every field its schema requires.
C29_RequiredFieldsPresent ==
    (fin.id # 0 /\ HasOutputSchema(fin.call)) =>
      /\ fin.env.form = "structuredContent"
      /\ RequiredFields(fin.call) \subseteq fin.env.fields

\* ----------------------------------------------------------- tokens-one-chain
\* The tokens-one-chain request without a chain argument.
NoChain == Call("tokens-one-chain", "", "")

====
